---- MODULE Spec2Model ----
(***************************************************************************)
(* The chat turn of BusinessGPT Beta: apiChatHandler and the functions it  *)
(* calls (checkUsageLimit, callLLMAPI, callOpenAI, recordUsage,            *)
(* saveChatHistory) over the tables user_usage, chat_sessions and          *)
(* chat_messages.  Every request is served by its own goroutine; a step of *)
(* the model is one database statement or one provider call of one         *)
(* request, so the steps of concurrent requests interleave freely.         *)
(***************************************************************************)
EXTENDS Integers, Sequences, FiniteSets, TLC

(* ------------------------------ bounds --------------------------------- *)
\* concurrent requests in flight
NumReqs == 2
\* users that hold a login session
NumUsers == 2
\* calendar days the run spans (CURRENT_DATE ranges over 1..MaxDate)
MaxDate == 2
\* database statements that fail with a connection error during a run
MaxFaults == 1

(* ------------------------- program constants --------------------------- *)
DailyLimit == 50
TitleMax == 50
TitleKeep == 47
StubTokens == 100
ModelColumnLen == 50

Reqs == 1..NumReqs
Users == 1..NumUsers
Dates == 1..MaxDate
\* session.Values has no "user_id"
NoUser == 0

(* ------------------------------ strings -------------------------------- *)
\* A Go string is a sequence of bytes; text arrives as JSON and is held as
\* UTF-8.  A text is written here as its sequence of code points.
UTF8(cp) ==
    IF cp < 128 THEN <<cp>>
    ELSE IF cp < 2048 THEN <<192 + (cp \div 64), 128 + (cp % 64)>>
    ELSE <<224 + (cp \div 4096), 128 + ((cp \div 64) % 64), 128 + (cp % 64)>>

RECURSIVE Encode(_)
Encode(cps) == IF cps = <<>> THEN <<>> ELSE UTF8(Head(cps)) \o Encode(Tail(cps))

\* n Latin letters, n hiragana
Latin(n) == [i \in 1..n |-> 97 + (i % 26)]
Kana(n) == [i \in 1..n |-> 12354 + (i % 64)]

\* "..."
Ellipsis == <<46, 46, 46>>

IsContinuation(b) == b >= 128 /\ b < 192

\* the bytes that follow s[i] belong to the character s[i] starts
Whole(s, i) ==
    IF s[i] < 128 THEN TRUE
    ELSE IF s[i] < 224
    THEN i + 1 <= Len(s) /\ IsContinuation(s[i + 1])
    ELSE /\ i + 2 <= Len(s)
         /\ IsContinuation(s[i + 1])
         /\ IsContinuation(s[i + 2])

\* no character of the byte string is cut in two
ValidUTF8(s) == \A i \in 1..Len(s) : IsContinuation(s[i]) \/ Whole(s, i)

\* saveChatHistory: title := userMessage; if len(title) > 50 { title = title[:47] + "..." }
Title(userMessage) ==
    IF Len(userMessage) > TitleMax
    THEN SubSeq(userMessage, 1, TitleKeep) \o Ellipsis
    ELSE userMessage

(* ------------------------------ inputs --------------------------------- *)
ShortMessage == Encode(Latin(3))
Messages == { ShortMessage,
              Encode(Latin(50)),
              Encode(Latin(51)),
              Encode(Latin(2) \o Kana(17)),
              Encode(Kana(17)) }

LongModel == "a-model-name-that-is-longer-than-the-fifty-characters"
EnumeratedModels == {"gpt-4o", "claude-3", "gemini"}
Models == EnumeratedModels \cup {"llama-3", "", LongModel}

\* what the upstream API does with one POST: the transport fails or times
\* out, the status is not 200, the body is not JSON, the JSON has no choice,
\* or a reply with usage.total_tokens
Upstreams ==
    { [kind |-> k, content |-> "", total_tokens |-> 0] :
        k \in {"neterr", "non200", "badjson", "nochoices"} }
    \cup { [kind |-> "ok", content |-> "reply", total_tokens |-> t] : t \in {0, 7} }

(* ------------------------------- state --------------------------------- *)
VARIABLES
    user_usage,      \* table user_usage: a set of rows
    chat_sessions,   \* table chat_sessions: rows in id order (id = index)
    chat_messages,   \* table chat_messages: rows in id order
    CURRENT_DATE,    \* the database's calendar date
    apiKey,          \* os.Getenv("OPENAI_API_KEY")
    reqs,            \* the requests in flight: locals and position of each handler
    faults,          \* statements that failed with a connection error so far
    usage0           \* user_usage at the start (history variable)

vars == <<user_usage, chat_sessions, chat_messages, CURRENT_DATE, apiKey, reqs,
          faults, usage0>>

store == <<user_usage, chat_sessions, chat_messages>>

NoReply == [kind |-> "none", echo |-> <<>>]

\* a request slot before its request arrives.  user_id, message, model,
\* response, tokens, err, sessionID, status and body are the handler's
\* values; the others record what happened to the request: quota and stored
\* the outcome of the quota read and the chat count the table held then, via
\* the function callLLMAPI selected, usage and usageDate the outcome and the
\* date of recordUsage, hist the outcome of saveChatHistory
IdleReq ==
    [ pc |-> "idle", user_id |-> NoUser, message |-> <<>>, model |-> "",
      quota |-> "unread", stored |-> 0,
      via |-> "none", response |-> NoReply, tokens |-> 0, err |-> "nil",
      usage |-> "none", usageDate |-> 0,
      sessionID |-> 0, hist |-> "none",
      status |-> 0, body |-> "none" ]

UsageRow(id, u, d, c, t) ==
    [id |-> id, user_id |-> u, date |-> d, chat_count |-> c, token_count |-> t]

\* SELECT ... FROM user_usage WHERE user_id = $1 AND date = CURRENT_DATE
UsageRows(tbl, u, d) == {row \in tbl : row.user_id = u /\ row.date = d}

\* the tables a running server can hold when the requests of the model
\* arrive: no row for today, or a row of user 1 near the limit
StartUsage ==
    { {}, {UsageRow(1, 1, 1, DailyLimit - 1, 0)}, {UsageRow(1, 1, 1, DailyLimit, 0)} }

Init ==
    /\ user_usage \in StartUsage
    /\ usage0 = user_usage
    /\ chat_sessions = <<>>
    /\ chat_messages = <<>>
    /\ CURRENT_DATE = 1
    /\ apiKey \in {"", "sk-key"}
    /\ reqs = [r \in Reqs |-> IdleReq]
    /\ faults = 0

\* the outcomes of one database statement: it runs, or the connection fails
DbOutcomes == IF faults < MaxFaults THEN {TRUE, FALSE} ELSE {TRUE}

Fault(ok) == faults' = IF ok THEN faults ELSE faults + 1

(* ---------------------------- apiChatHandler --------------------------- *)
\* the handler without its check of the login session
Authenticated_Always(uid) == TRUE

\* userID, ok := session.Values["user_id"]
Authenticated(uid) == uid # NoUser

\* lines 593-605: session lookup, 401 without a user, JSON decoding, 400
\* (the requests are numbered in the order they arrive)
Receive(r, Uids, Msgs, Mdls) ==
    /\ reqs[r].pc = "idle"
    /\ IF r = 1 THEN TRUE ELSE reqs[r - 1].pc # "idle"
    /\ \E uid \in {NoUser} \cup Uids, valid \in BOOLEAN, msg \in Msgs, mdl \in Mdls :
         reqs' = [reqs EXCEPT ![r] =
            IF ~Authenticated(uid)
            THEN [@ EXCEPT !.user_id = uid, !.pc = "done", !.status = 401,
                           !.body = "Unauthorized"]
            ELSE IF ~valid
            THEN [@ EXCEPT !.user_id = uid, !.pc = "done", !.status = 400,
                           !.body = "Invalid JSON"]
            ELSE [@ EXCEPT !.user_id = uid, !.message = msg, !.model = mdl,
                           !.pc = "check"]]
    /\ UNCHANGED <<store, CURRENT_DATE, apiKey, faults, usage0>>

\* checkUsageLimit admitting on sql.ErrNoRows only, refusing on other errors
checkUsageLimit_FailClosed(tbl, u, d, ok) ==
    LET rows == UsageRows(tbl, u, d) IN
    IF ~ok THEN FALSE
    ELSE IF rows = {} THEN TRUE
    ELSE (CHOOSE row \in rows : \A o \in rows : row.id <= o.id).chat_count < DailyLimit

\* checkUsageLimit: any Scan error (no row, or a failed query) admits the turn
checkUsageLimit(tbl, u, d, ok) ==
    LET rows == UsageRows(tbl, u, d) IN
    IF ~ok \/ rows = {} THEN TRUE
    ELSE (CHOOSE row \in rows : \A o \in rows : row.id <= o.id).chat_count < DailyLimit

\* the chat count the table holds for (u, d); no row counts as zero
StoredCount(tbl, u, d) ==
    LET rows == UsageRows(tbl, u, d) IN
    IF rows = {} THEN 0
    ELSE (CHOOSE row \in rows : \A o \in rows : row.chat_count >= o.chat_count).chat_count

\* lines 607-613
CheckUsage(r, Outs) ==
    /\ reqs[r].pc = "check"
    /\ \E ok \in Outs :
         LET q == reqs[r]
             seen == [q EXCEPT
                      !.quota = IF ~ok THEN "error"
                                ELSE IF UsageRows(user_usage, q.user_id, CURRENT_DATE) = {}
                                THEN "norow" ELSE "row",
                      !.stored = StoredCount(user_usage, q.user_id, CURRENT_DATE)]
         IN
         /\ Fault(ok)
         /\ reqs' = [reqs EXCEPT ![r] =
              IF checkUsageLimit(user_usage, q.user_id, CURRENT_DATE, ok)
              THEN [seen EXCEPT !.pc = "call"]
              ELSE [seen EXCEPT !.pc = "done", !.status = 429, !.body = "limit reached"]]
    /\ UNCHANGED <<store, CURRENT_DATE, apiKey, usage0>>

\* callOpenAI
callOpenAI(message, key, up) ==
    IF key = "" THEN [response |-> NoReply, tokens |-> 0, err |-> "no api key"]
    ELSE IF up.kind = "neterr" THEN [response |-> NoReply, tokens |-> 0, err |-> "transport"]
    ELSE IF up.kind = "non200" THEN [response |-> NoReply, tokens |-> 0, err |-> "api error"]
    ELSE IF up.kind = "badjson" THEN [response |-> NoReply, tokens |-> 0, err |-> "unmarshal"]
    ELSE IF up.kind = "nochoices" THEN [response |-> NoReply, tokens |-> 0, err |-> "no response"]
    ELSE [response |-> [kind |-> up.content, echo |-> <<>>],
          tokens |-> up.total_tokens, err |-> "nil"]

\* callLLMAPI: the function the switch selects
Dispatch(model) ==
    IF model = "gpt-4o" THEN "callOpenAI"
    ELSE IF model = "claude-3" THEN "claude-stub"
    ELSE IF model = "gemini" THEN "gemini-stub"
    ELSE "callOpenAI"

callLLMAPI(message, model, key, up) ==
    IF Dispatch(model) = "callOpenAI" THEN callOpenAI(message, key, up)
    ELSE [response |-> [kind |-> Dispatch(model), echo |-> message],
          tokens |-> StubTokens, err |-> "nil"]

\* the handler going on after a failed provider call
ProviderFailed_Ignored(res) == FALSE

\* if err != nil { ... 500 ...; return }
ProviderFailed(res) == res.err # "nil"

\* lines 615-623
CallLLM(r, Ups) ==
    /\ reqs[r].pc = "call"
    /\ \E up \in Ups :
         LET res == callLLMAPI(reqs[r].message, reqs[r].model, apiKey, up) IN
         reqs' = [reqs EXCEPT ![r] =
            LET got == [@ EXCEPT !.via = Dispatch(reqs[r].model), !.response = res.response,
                                 !.tokens = res.tokens, !.err = res.err]
            IN IF ProviderFailed(res)
               THEN [got EXCEPT !.pc = "done", !.status = 500, !.body = res.err]
               ELSE [got EXCEPT !.pc = "record"]]
    /\ UNCHANGED <<store, CURRENT_DATE, apiKey, faults, usage0>>

\* recordUsage without its ON CONFLICT clause over a table without UNIQUE
UpsertUsage_InsertOnly(tbl, u, d, tokens) ==
    tbl \cup {[id |-> Cardinality(tbl) + 1, user_id |-> u, date |-> d,
               chat_count |-> 1, token_count |-> tokens]}

\* recordUsage: INSERT ... ON CONFLICT (user_id, date) DO UPDATE, one statement
UpsertUsage(tbl, u, d, tokens) ==
    IF UsageRows(tbl, u, d) = {}
    THEN tbl \cup {UsageRow(Cardinality(tbl) + 1, u, d, 1, tokens)}
    ELSE { IF row.user_id = u /\ row.date = d
           THEN [row EXCEPT !.chat_count = @ + 1, !.token_count = @ + tokens]
           ELSE row : row \in tbl }

\* the handler giving up the history when recordUsage failed
AfterUsage_SkipHistory(ok) == IF ok THEN "session" ELSE "respond"

\* lines 625-629: whatever recordUsage returned, saveChatHistory comes next
AfterUsage(ok) == "session"

\* lines 625-627: an error of recordUsage is logged, the turn goes on
RecordUsage(r, Outs) ==
    /\ reqs[r].pc = "record"
    /\ \E ok \in Outs :
         /\ Fault(ok)
         /\ user_usage' = IF ok
                          THEN UpsertUsage(user_usage, reqs[r].user_id, CURRENT_DATE,
                                           reqs[r].tokens)
                          ELSE user_usage
         /\ reqs' = [reqs EXCEPT ![r] =
              [@ EXCEPT !.usage = IF ok THEN "ok" ELSE "bad connection",
                        !.usageDate = IF ok THEN CURRENT_DATE ELSE 0,
                        !.pc = AfterUsage(ok)]]
    /\ UNCHANGED <<chat_sessions, chat_messages, CURRENT_DATE, apiKey, usage0>>

\* the encodings the database may have been created with; UTF8 rejects a
\* text that is not well-formed
Encodings == {"UTF8", "SQL_ASCII"}

\* the error of an INSERT into chat_sessions / chat_messages: the connection
\* fails, a text is not valid in the database's encoding, or model does not
\* fit VARCHAR(50)
InsertError(text, model, enc, ok) ==
    IF ~ok THEN "bad connection"
    ELSE IF enc = "UTF8" /\ ~ValidUTF8(text) THEN "invalid byte sequence"
    ELSE IF Len(model) > ModelColumnLen THEN "value too long"
    ELSE "nil"

SessionRow(u, title, model) == [user_id |-> u, title |-> title, model |-> model]

\* saveChatHistory writing both messages with the role of the first
MessageRow_OneRole(sid, role, content, model, tokens) ==
    [session_id |-> sid, role |-> "user", content |-> content, model |-> model,
     tokens_used |-> tokens]

MessageRow(sid, role, content, model, tokens) ==
    [session_id |-> sid, role |-> role, content |-> content, model |-> model,
     tokens_used |-> tokens]

\* the handler failing the turn when saveChatHistory failed
StatusAfterHistory_Failing(err) == IF err \in {"none", "ok"} THEN 200 ELSE 500

\* the handler after saveChatHistory returned err: log, then the 200 response
StatusAfterHistory(err) == 200

\* lines 633-638
Respond(q) ==
    [q EXCEPT !.pc = "done", !.status = StatusAfterHistory(q.hist),
              !.body = [response |-> q.response, model |-> q.model, tokens |-> q.tokens]]

\* saveChatHistory, INSERT INTO chat_sessions ... RETURNING id
SaveSession(r, Outs) ==
    /\ reqs[r].pc = "session"
    /\ \E ok \in Outs, enc \in Encodings :
         LET e == InsertError(Title(reqs[r].message), reqs[r].model, enc, ok) IN
         /\ Fault(ok)
         /\ chat_sessions' =
              IF e = "nil"
              THEN Append(chat_sessions,
                          SessionRow(reqs[r].user_id, Title(reqs[r].message), reqs[r].model))
              ELSE chat_sessions
         /\ reqs' = [reqs EXCEPT ![r] =
              IF e = "nil"
              THEN [@ EXCEPT !.sessionID = Len(chat_sessions) + 1, !.pc = "usermsg"]
              ELSE [@ EXCEPT !.hist = e, !.pc = "respond"]]
    /\ UNCHANGED <<user_usage, chat_messages, CURRENT_DATE, apiKey, usage0>>

\* saveChatHistory, INSERT INTO chat_messages ... 'user' (the content is the
\* request's text, well-formed in every encoding)
SaveUserMessage(r, Outs) ==
    /\ reqs[r].pc = "usermsg"
    /\ \E ok \in Outs :
         LET e == InsertError(<<>>, reqs[r].model, "UTF8", ok) IN
         /\ Fault(ok)
         /\ chat_messages' =
              IF e = "nil"
              THEN Append(chat_messages,
                          MessageRow(reqs[r].sessionID, "user", reqs[r].message,
                                     reqs[r].model, "NULL"))
              ELSE chat_messages
         /\ reqs' = [reqs EXCEPT ![r] =
              IF e = "nil" THEN [@ EXCEPT !.pc = "asstmsg"]
              ELSE [@ EXCEPT !.hist = e, !.pc = "respond"]]
    /\ UNCHANGED <<user_usage, chat_sessions, CURRENT_DATE, apiKey, usage0>>

\* saveChatHistory, INSERT INTO chat_messages ... 'assistant'
SaveAssistantMessage(r, Outs) ==
    /\ reqs[r].pc = "asstmsg"
    /\ \E ok \in Outs :
         LET e == InsertError(<<>>, reqs[r].model, "UTF8", ok) IN
         /\ Fault(ok)
         /\ chat_messages' =
              IF e = "nil"
              THEN Append(chat_messages,
                          MessageRow(reqs[r].sessionID, "assistant", reqs[r].response,
                                     reqs[r].model, reqs[r].tokens))
              ELSE chat_messages
         /\ reqs' = [reqs EXCEPT ![r] =
              [@ EXCEPT !.hist = IF e = "nil" THEN "ok" ELSE e, !.pc = "respond"]]
    /\ UNCHANGED <<user_usage, chat_sessions, CURRENT_DATE, apiKey, usage0>>

\* lines 629-638: the error of saveChatHistory is logged, the reply is sent
SendResponse(r) ==
    /\ reqs[r].pc = "respond"
    /\ reqs' = [reqs EXCEPT ![r] = Respond(@)]
    /\ UNCHANGED <<store, CURRENT_DATE, apiKey, faults, usage0>>

\* midnight: CURRENT_DATE moves on
Midnight ==
    /\ CURRENT_DATE < MaxDate
    /\ CURRENT_DATE' = CURRENT_DATE + 1
    /\ UNCHANGED <<store, apiKey, reqs, faults, usage0>>

\* concurrent turns of one user on one day, the database answering every
\* statement
Next ==
    \/ \E r \in Reqs :
         \/ Receive(r, {1}, {ShortMessage}, {"gpt-4o", "claude-3"})
         \/ CheckUsage(r, {TRUE})
         \/ CallLLM(r, {up \in Upstreams : up.kind = "non200" \/ up.total_tokens = 7})
         \/ RecordUsage(r, {TRUE})
         \/ SaveSession(r, {TRUE})
         \/ SaveUserMessage(r, {TRUE})
         \/ SaveAssistantMessage(r, {TRUE})
         \/ SendResponse(r)

Spec == Init /\ [][Next]_vars

\* one turn, of any user, with every message and model, over midnight, the
\* database failing up to MaxFaults statements
NextTurn ==
    \/ Receive(1, Users, Messages, Models)
    \/ CheckUsage(1, DbOutcomes)
    \/ CallLLM(1, Upstreams)
    \/ RecordUsage(1, DbOutcomes)
    \/ SaveSession(1, DbOutcomes)
    \/ SaveUserMessage(1, DbOutcomes)
    \/ SaveAssistantMessage(1, DbOutcomes)
    \/ SendResponse(1)
    \/ Midnight

SpecTurn == Init /\ [][NextTurn]_vars

(* ------------------------------ properties ----------------------------- *)
\* the rows of chat_messages of one session, in id order
RECURSIVE MessagesOf(_, _)
MessagesOf(msgs, sid) ==
    IF msgs = <<>> THEN <<>>
    ELSE IF Head(msgs).session_id = sid
    THEN <<Head(msgs)>> \o MessagesOf(Tail(msgs), sid)
    ELSE MessagesOf(Tail(msgs), sid)

\* the requests that wrote usage for (u, d)
Charged(u, d) ==
    {r \in Reqs : reqs[r].usage = "ok" /\ reqs[r].user_id = u /\ reqs[r].usageDate = d}

RECURSIVE TokenSum(_)
TokenSum(rs) ==
    IF rs = {} THEN 0
    ELSE LET r == CHOOSE x \in rs : TRUE IN reqs[r].tokens + TokenSum(rs \ {r})

\* the token count the table held at the start for (u, d)
StartTokens(u, d) ==
    LET rows == UsageRows(usage0, u, d) IN
    IF rows = {} THEN 0 ELSE (CHOOSE row \in rows : TRUE).token_count

\* no request has changed a table
StoreUntouched == user_usage = usage0 /\ chat_sessions = <<>> /\ chat_messages = <<>>

\* C1: the recorded chat count of a user for a date never exceeds the daily
\* limit of 50, under any interleaving of concurrent turns.
C1_CountWithinLimit == \A row \in user_usage : row.chat_count <= DailyLimit

\* C2: a turn of a user whose chat count for today is at or above the limit
\* when the handler checks it ends with 429 and has no side effect: no
\* provider call, no usage written, no session or message created.
C2_AtLimitRejected ==
    \A r \in Reqs :
        (reqs[r].quota # "unread" /\ reqs[r].stored >= DailyLimit)
        => /\ reqs[r].pc = "done"
           /\ reqs[r].status = 429
           /\ reqs[r].via = "none"
           /\ reqs[r].usage = "none"
           /\ reqs[r].sessionID = 0
           /\ StoreUntouched

\* C3: a turn whose provider call failed ends with 500, and has written no
\* usage, no session and no message.
C3_ProviderErrorNoEffects ==
    \A r \in Reqs :
        reqs[r].err # "nil"
        => /\ reqs[r].pc = "done"
           /\ reqs[r].status = 500
           /\ reqs[r].usage = "none"
           /\ reqs[r].sessionID = 0
           /\ reqs[r].hist = "none"
           /\ StoreUntouched

C3_Witness ==
    \E r \in Reqs :
        /\ reqs[r].status = 500
        /\ reqs[r].err = "api error"
        /\ reqs[r].stored = DailyLimit - 1
        /\ StoreUntouched

\* the session of request q and its two messages, the user's first
HistoryComplete(q) ==
    /\ q.sessionID \in 1..Len(chat_sessions)
    /\ chat_sessions[q.sessionID].user_id = q.user_id
    /\ MessagesOf(chat_messages, q.sessionID)
         = << [session_id |-> q.sessionID, role |-> "user", content |-> q.message,
               model |-> q.model, tokens_used |-> "NULL"],
              [session_id |-> q.sessionID, role |-> "assistant", content |-> q.response,
               model |-> q.model, tokens_used |-> q.tokens] >>

\* a session is of exactly one request
OneSessionEach ==
    /\ Len(chat_sessions) = Cardinality({r \in Reqs : reqs[r].sessionID # 0})
    /\ \A r1, r2 \in Reqs :
         (r1 # r2 /\ reqs[r1].sessionID # 0) => reqs[r1].sessionID # reqs[r2].sessionID

\* C4 as stated: every turn that ended with the success response has
\* persisted one new session and two messages in it, user then assistant.
C4_SuccessHasHistory ==
    \A r \in Reqs : reqs[r].status = 200 => (HistoryComplete(reqs[r]) /\ OneSessionEach)

\* C4 as amended: a turn that ended with the success response and whose
\* saveChatHistory returned no error has persisted one new session and two
\* messages in it, user then assistant; one whose saveChatHistory failed has
\* persisted no session, or one session with no message or the user's only.
C4_SuccessHasHistoryUnlessSaveFailed ==
    \A r \in Reqs :
        reqs[r].status = 200
        => /\ OneSessionEach
           /\ reqs[r].hist # "none"
           /\ reqs[r].hist = "ok" => HistoryComplete(reqs[r])
           /\ reqs[r].hist # "ok"
                => \/ /\ reqs[r].sessionID = 0
                      /\ MessagesOf(chat_messages, 0) = <<>>
                   \/ /\ reqs[r].sessionID \in 1..Len(chat_sessions)
                      /\ MessagesOf(chat_messages, reqs[r].sessionID) \in
                           { <<>>,
                             << [session_id |-> reqs[r].sessionID, role |-> "user",
                                 content |-> reqs[r].message, model |-> reqs[r].model,
                                 tokens_used |-> "NULL"] >> }

C4_Witness ==
    \E r \in Reqs :
        /\ reqs[r].status = 200
        /\ reqs[r].hist = "ok"
        /\ Len(reqs[r].message) > TitleMax
        /\ Len(MessagesOf(chat_messages, reqs[r].sessionID)) = 2

\* C5: a turn that ended with the success response has been charged: the
\* chat count of its user and date has grown by one.
C5_SuccessIsCharged ==
    \A r \in Reqs :
        reqs[r].status = 200
        => /\ reqs[r].usage = "ok"
           /\ StoredCount(user_usage, reqs[r].user_id, reqs[r].usageDate)
                = StoredCount(usage0, reqs[r].user_id, reqs[r].usageDate) + 1

\* C6: after any interleaving of k executions of recordUsage for one user
\* and date there is one counter row, its chat count grown by k and its
\* token count by the sum of the k token costs.
C6_UsageAtomic ==
    \A u \in Users, d \in Dates :
        LET rows == UsageRows(user_usage, u, d)
            k == Cardinality(Charged(u, d))
        IN IF k = 0 THEN rows = UsageRows(usage0, u, d)
           ELSE /\ Cardinality(rows) = 1
                /\ \A row \in rows :
                     /\ row.chat_count = StoredCount(usage0, u, d) + k
                     /\ row.token_count = StartTokens(u, d) + TokenSum(Charged(u, d))

C6_Witness ==
    \E r1, r2 \in Reqs :
        /\ r1 # r2
        /\ reqs[r1].usage = "ok" /\ reqs[r2].usage = "ok"
        /\ reqs[r1].user_id = reqs[r2].user_id
        /\ reqs[r1].tokens # reqs[r2].tokens
        /\ \E row \in user_usage :
             /\ row.user_id = reqs[r1].user_id
             /\ row.chat_count = StoredCount(usage0, row.user_id, row.date) + 2
             /\ row.token_count = reqs[r1].tokens + reqs[r2].tokens

\* C7: a failed insert of saveChatHistory does not fail the turn: the
\* request goes on to the success response with the reply and its token
\* count, and the usage it wrote stays counted.
C7_HistoryFailureSwallowed ==
    \A r \in Reqs :
        reqs[r].hist \notin {"none", "ok"}
        => /\ reqs[r].pc \in {"respond", "done"}
           /\ reqs[r].err = "nil"
           /\ reqs[r].pc = "done"
                => /\ reqs[r].status = 200
                   /\ reqs[r].body = [response |-> reqs[r].response,
                                      model |-> reqs[r].model,
                                      tokens |-> reqs[r].tokens]
                   /\ reqs[r].response # NoReply
           /\ reqs[r].usage = "ok"
                => /\ Cardinality(UsageRows(user_usage, reqs[r].user_id,
                                            reqs[r].usageDate)) = 1
                   /\ StoredCount(user_usage, reqs[r].user_id, reqs[r].usageDate)
                        = StoredCount(usage0, reqs[r].user_id, reqs[r].usageDate) + 1

C7_Witness ==
    \E r \in Reqs :
        /\ reqs[r].hist = "bad connection"
        /\ reqs[r].sessionID # 0
        /\ reqs[r].usage = "ok"
        /\ reqs[r].status = 200

\* number of characters of a UTF-8 byte string
RuneCount(s) == Cardinality({i \in 1..Len(s) : ~IsContinuation(s[i])})

\* the first k characters of a UTF-8 byte string of more than k characters
FirstRunes(s, k) ==
    SubSeq(s, 1, CHOOSE p \in 0..Len(s) :
                    /\ RuneCount(SubSeq(s, 1, p)) = k
                    /\ p < Len(s) /\ ~IsContinuation(s[p + 1]))

\* the title C8 states
StatedTitle(message) ==
    IF RuneCount(message) <= TitleMax THEN message
    ELSE FirstRunes(message, TitleKeep) \o Ellipsis

\* C8: the stored session title is the message when the message has at
\* most 50 characters, and its first 47 characters followed by "..."
\* otherwise.
C8_TitleByCharacters ==
    \A r \in Reqs :
        reqs[r].sessionID # 0
        => chat_sessions[reqs[r].sessionID].title = StatedTitle(reqs[r].message)

\* C9: a turn with a model that is not enumerated takes the path of the
\* primary model (callOpenAI), and meets no error that the primary model
\* would not meet: the model string is never the cause of an error.
C9_UnknownModelAsPrimary ==
    \A r \in Reqs :
        (reqs[r].model \notin EnumeratedModels /\ reqs[r].via # "none")
        => /\ reqs[r].via = Dispatch("gpt-4o")
           /\ reqs[r].hist # "value too long"

\* C10: a request without user_id in its session ends with 401 before
\* anything else: no quota read, no provider call, no usage, no history.
C10_UnauthenticatedRejected ==
    \A r \in Reqs :
        (reqs[r].pc # "idle" /\ reqs[r].user_id = NoUser)
        => /\ reqs[r].pc = "done"
           /\ reqs[r].status = 401
           /\ reqs[r].quota = "unread"
           /\ reqs[r].via = "none"
           /\ reqs[r].usage = "none"
           /\ reqs[r].sessionID = 0
           /\ reqs[r].hist = "none"
           /\ StoreUntouched

C10_Witness ==
    \E r \in Reqs :
        /\ reqs[r].status = 401
        /\ reqs[r].user_id = NoUser
        /\ user_usage # {}

\* C11: within a turn the steps come in the order quota check, provider
\* call, usage recording, history persistence, response: the provider is
\* called only after the quota check admitted the turn, usage is recorded
\* only after the provider returned a reply, history is written only after
\* recordUsage was attempted, and the success response is sent only after
\* both were attempted.
C11_StepsInOrder ==
    \A r \in Reqs :
        LET q == reqs[r] IN
        /\ (q.pc = "call" \/ q.via # "none")
             => (q.quota # "unread" /\ q.status # 429)
        /\ (q.pc = "record" \/ q.usage # "none")
             => (q.via # "none" /\ q.err = "nil" /\ q.response # NoReply)
        /\ (q.pc \in {"session", "usermsg", "asstmsg"} \/ q.sessionID # 0
              \/ q.hist # "none")
             => q.usage # "none"
        /\ (q.pc = "respond" \/ q.status = 200)
             => (q.usage # "none" /\ q.hist # "none")
        /\ q.status \in {401, 400, 429}
             => (q.via = "none" /\ q.usage = "none" /\ q.hist = "none")
        /\ q.status = 500 => (q.usage = "none" /\ q.hist = "none")

C11_Witness ==
    \E r \in Reqs :
        /\ reqs[r].status = 200
        /\ reqs[r].quota = "row"
        /\ reqs[r].usage = "bad connection"
        /\ reqs[r].hist = "ok"

\* C12: in every reachable state every chat session has exactly two
\* messages, one of role user and one of role assistant.
C12_TwoMessagesPerSession ==
    \A sid \in 1..Len(chat_sessions) :
        LET ms == MessagesOf(chat_messages, sid) IN
        /\ Len(ms) = 2
        /\ {ms[1].role, ms[2].role} = {"user", "assistant"}

\* C13: a user with no usage row for today counts as zero: the quota check
\* admits the turn, and once the provider has replied and recordUsage has
\* run, the row of the user and the day exists with chat count 1 and the
\* token cost of the turn.
C13_FirstTurnCreatesRow ==
    \A r \in Reqs :
        LET q == reqs[r] IN
        (q.quota # "unread" /\ q.stored = 0)
        => /\ q.status # 429
           /\ q.pc # "check"
           /\ q.usage # "none"
                => \E row \in user_usage :
                     /\ UsageRows(user_usage, q.user_id, row.date) = {row}
                     /\ row.date \in {q.usageDate, CURRENT_DATE}
                     /\ row.chat_count = 1
                     /\ row.token_count = q.tokens

\* C14: checkUsageLimit fails open: when the quota read returns an error
\* the turn is admitted whatever chat count is stored, so a turn ends with
\* 429 only if the read succeeded and returned a count of at least 50.
C14_QuotaFailsOpen ==
    \A r \in Reqs :
        LET q == reqs[r] IN
        /\ q.quota = "error" => (q.pc # "check" /\ q.status # 429)
        /\ q.quota = "norow" => q.status # 429
        /\ q.status = 429 => (q.quota = "row" /\ q.stored >= DailyLimit)

C14_Witness ==
    \E r \in Reqs :
        /\ reqs[r].quota = "error"
        /\ reqs[r].stored >= DailyLimit
        /\ reqs[r].via # "none"
        /\ reqs[r].status = 200

====
